---- MODULE Spec2Model ----
(***************************************************************************)
(* The checkout form of src/App.tsx: the service catalog, the selection,   *)
(* the four payment fields with their change handlers, and handleSubmit    *)
(* with its single outbound call to the payment gateway.                   *)
(*                                                                         *)
(* A JavaScript string is a sequence of one-character strings, so that     *)
(* replace, match, slice and split are computed character by character.    *)
(* Identifiers, routing codes and message texts, which the program only    *)
(* compares or copies, are atoms.  Prices are held in cents, so sums are   *)
(* exact; the last-bit rounding of JavaScript's number addition is not     *)
(* represented.                                                            *)
(***************************************************************************)
EXTENDS Integers, Sequences, FiniteSets, TLC

VARIABLES
    selectedServices,   \* string[]: the selected ids, in the order toggled on
    cardNumber,         \* display-formatted card number
    cardName,           \* cardholder name, as typed
    expiryDate,         \* display-formatted expiry
    cvv,                \* CVV digits
    processing,         \* the busy flag
    calls,              \* the handleSubmit invocations suspended at an await
    loading,            \* ids of the loading toasts on display
    toast,              \* the latest success / error notification raised
    event               \* the handler that ran last

vars == <<selectedServices, cardNumber, cardName, expiryDate, cvv,
          processing, calls, loading, toast, event>>

fields == <<cardNumber, cardName, expiryDate, cvv>>

-----------------------------------------------------------------------------
(* Bounds of the model *)

\* handleSubmit invocations that may be suspended at once
MaxCalls == 2

-----------------------------------------------------------------------------
(* The catalog *)

services == <<
    [id |-> "1", price |-> 149999, mccCode |-> "7531"],
    [id |-> "2", price |-> 19999,  mccCode |-> "7531"],
    [id |-> "3", price |-> 79999,  mccCode |-> "5532"],
    [id |-> "4", price |-> 3999,   mccCode |-> "5532"],
    [id |-> "5", price |-> 4999,   mccCode |-> "7538"],
    [id |-> "6", price |-> 29999,  mccCode |-> "7538"] >>

ServiceIds == {services[i].id : i \in DOMAIN services}

-----------------------------------------------------------------------------
(* Strings *)

\* the characters \d matches
Digit == {"0", "1", "2", "3", "4", "5", "6", "7", "8", "9"}

\* the characters \s matches, among those the model types
Whitespace == {" "}

IsDigit(c) == c \in Digit

IsNotSpace(c) == c \notin Whitespace

\* Array.prototype.includes
Includes(arr, x) == \E i \in DOMAIN arr : arr[i] = x

\* String.prototype.slice(from, to), 0-based, end exclusive, to >= from >= 0
Slice(s, from, to) ==
    SubSeq(s, from + 1, IF to < Len(s) THEN to ELSE Len(s))

\* value.replace(/\s/g, '')
StripSpaces(s) == SelectSeq(s, IsNotSpace)

\* value.replace(/\D/g, '')
StripNonDigits(s) == SelectSeq(s, IsDigit)

\* /^\d*$/.test(value)
AllDigits(s) == \A i \in DOMAIN s : s[i] \in Digit

\* cleaned.match(/.{1,4}/g): greedy groups of up to four characters; no match
\* (null) on the empty string is the empty sequence here
RECURSIVE MatchGroups(_)
MatchGroups(s) ==
    IF Len(s) = 0 THEN <<>>
    ELSE IF Len(s) <= 4 THEN <<s>>
    ELSE <<SubSeq(s, 1, 4)>> \o MatchGroups(SubSeq(s, 5, Len(s)))

\* Array.prototype.join(sep)
RECURSIVE Join(_, _)
Join(parts, sep) ==
    IF Len(parts) = 0 THEN <<>>
    ELSE IF Len(parts) = 1 THEN parts[1]
    ELSE parts[1] \o sep \o Join(Tail(parts), sep)

\* String.prototype.split(sep) for a one-character separator
RECURSIVE Split(_, _)
Split(s, sep) ==
    IF \A i \in DOMAIN s : s[i] # sep THEN <<s>>
    ELSE LET i == CHOOSE k \in DOMAIN s :
                     s[k] = sep /\ \A j \in 1..(k - 1) : s[j] # sep
         IN  <<SubSeq(s, 1, i - 1)>> \o Split(SubSeq(s, i + 1, Len(s)), sep)

-----------------------------------------------------------------------------
(* Input formatting *)

MaxCardDigits == 16
MaxCardDisplay == 19
MaxExpiryDigits == 4
MaxCvvDigits == 3

formatCardNumber(value) ==
    LET cleaned   == StripSpaces(value)
        groups    == MatchGroups(cleaned)
        formatted == IF Len(groups) = 0 THEN cleaned ELSE Join(groups, <<" ">>)
    IN  Slice(formatted, 0, MaxCardDisplay)

\* the card number field after handleCardNumberChange runs on input `input`
CardNumberAfter(cur, input) ==
    LET value == StripSpaces(input)
    IN  IF AllDigits(value) /\ Len(value) <= MaxCardDigits
        THEN formatCardNumber(value)
        ELSE cur

\* faulty variant: the input is formatted without its non-digits stripped
ExpiryDigitsUnstripped(input) == input

\* the digits handleExpiryChange formats
ExpiryDigits(input) == StripNonDigits(input)

\* the expiry field after handleExpiryChange runs on input `input`
ExpiryAfter(cur, input) ==
    LET value == ExpiryDigits(input)
    IN  IF Len(value) <= MaxExpiryDigits
        THEN IF Len(value) >= 2
             THEN Slice(value, 0, 2) \o <<"/">> \o Slice(value, 2, Len(value))
             ELSE value
        ELSE cur

\* the CVV field after handleCvvChange runs on input `input`
CvvAfter(cur, input) ==
    LET value == StripNonDigits(input)
    IN  IF Len(value) <= MaxCvvDigits THEN value ELSE cur

-----------------------------------------------------------------------------
(* Selection *)

\* prev => prev.includes(id) ? prev.filter(x => x !== id) : [...prev, id]
Toggled(prev, serviceId) ==
    IF Includes(prev, serviceId)
    THEN LET Other(x) == x # serviceId IN SelectSeq(prev, Other)
    ELSE Append(prev, serviceId)

\* services.filter(service => sel.includes(service.id))
SelectedInCatalogOrder(sel) ==
    LET Chosen(service) == Includes(sel, service.id)
    IN  SelectSeq(services, Chosen)

\* faulty variant: the reducer returns the price instead of adding it
RECURSIVE ReducePricesAssigned(_, _)
ReducePricesAssigned(list, sum) ==
    IF Len(list) = 0 THEN sum
    ELSE ReducePricesAssigned(Tail(list), Head(list).price)

\* list.reduce((sum, service) => sum + service.price, 0)
RECURSIVE ReducePrices(_, _)
ReducePrices(list, sum) ==
    IF Len(list) = 0 THEN sum
    ELSE ReducePrices(Tail(list), sum + Head(list).price)

calculateTotal(sel) == ReducePrices(SelectedInCatalogOrder(sel), 0)

\* services.find(s => sel.includes(s.id)): index of the entry found, 0 for
\* undefined
RECURSIVE FindFrom(_, _)
FindFrom(sel, i) ==
    IF i > Len(services) THEN 0
    ELSE IF Includes(sel, services[i].id) THEN i
    ELSE FindFrom(sel, i + 1)

DefaultMcc == "7531"

\* faulty variant: the code of the service toggled on first
MccCodeOfFirstToggled(sel) ==
    IF Len(sel) = 0 THEN DefaultMcc
    ELSE LET i == CHOOSE k \in DOMAIN services : services[k].id = sel[1]
         IN  services[i].mccCode

\* firstSelectedService?.mccCode || '7531'
MccCodeFor(sel) ==
    LET i == FindFrom(sel, 1)
    IN  IF i = 0 THEN DefaultMcc ELSE services[i].mccCode

-----------------------------------------------------------------------------
(* The request *)

\* JavaScript values of the payload, tagged with their type
StrV(s) == [t |-> "string", v |-> s]
NumV(n) == [t |-> "number", v |-> n]
UndefinedV == [t |-> "undefined"]

\* const [expiryMonth, expiryYear] = expiryDate.split('/')
ExpiryPart(expiry, k) ==
    LET parts == Split(expiry, "/")
    IN  IF k <= Len(parts) THEN StrV(parts[k]) ELSE UndefinedV

Payload(sel, card, code, expiry) ==
    [ cardNumber  |-> StrV(StripSpaces(card)),
      cvv         |-> StrV(code),
      amount      |-> NumV(calculateTotal(sel)),
      mccCode     |-> StrV(MccCodeFor(sel)),
      expiryMonth |-> ExpiryPart(expiry, 1),
      expiryYear  |-> ExpiryPart(expiry, 2) ]

\* JSON.stringify drops the properties whose value is undefined
JSONstringify(obj) ==
    [k \in {key \in DOMAIN obj : obj[key].t # "undefined"} |-> obj[k]]

-----------------------------------------------------------------------------
(* Notifications *)

NoAmount == -1

Notice(kind, parts, amount) == [kind |-> kind, parts |-> parts, amount |-> amount]

NoToast == Notice("none", <<>>, NoAmount)

SelectServiceError ==
    Notice("error", <<"Please select at least one service">>, NoAmount)

CardDetailsError ==
    Notice("error", <<"Please fill in all card details">>, NoAmount)

\* a property the response body does not carry
Absent == "undefined"

\* x || fallback on a string or undefined
OrElse(x, fallback) == IF x \in {Absent, ""} THEN fallback ELSE x

\* toast.success(`Payment Approved!\n${data.responseMessage || `Amount: $${...}`}`)
ApprovedNotice(message, closure) ==
    IF message \in {Absent, ""}
    THEN Notice("success", <<"Payment Approved!", "Amount: $">>, calculateTotal(closure))
    ELSE Notice("success", <<"Payment Approved!", message>>, NoAmount)

\* toast.error(`Payment ${data.status || 'Failed'}\n${data.responseMessage || 'Unknown error'}`)
DeclinedNotice(status, message) ==
    Notice("error",
           <<"Payment", OrElse(status, "Failed"), OrElse(message, "Unknown error")>>,
           NoAmount)

\* toast.error(`Payment error: ${error instanceof Error ? error.message : 'Network error occurred'}`)
ThrownNotice(isError, message) ==
    Notice("error",
           <<"Payment error:", IF isError THEN message ELSE "Network error occurred">>,
           NoAmount)

-----------------------------------------------------------------------------
(* Suspended invocations of handleSubmit *)

\* what an await resolves to, or throws
NoOutcome == [kind |-> "none", status |-> Absent, message |-> Absent]

\* response.json() yields an object (or another non-null value, whose
\* properties read as undefined)
DataOutcome(status, message) ==
    [kind |-> "data", status |-> status, message |-> message]

\* response.json() yields null: data.status throws a TypeError
NullOutcome ==
    [kind |-> "null", status |-> Absent,
     message |-> "Cannot read properties of null"]

\* fetch or response.json() rejects with an Error
ThrownOutcome(message) ==
    [kind |-> "thrown", status |-> Absent, message |-> message]

Statuses == {"APPROVED", "DECLINED", Absent}
Messages == {"Insufficient funds", "", Absent}

FetchErrors == {ThrownOutcome("Failed to fetch")}

JsonOutcomes ==
    {DataOutcome(st, m) : st \in Statuses, m \in Messages}
        \cup {NullOutcome, ThrownOutcome("Unexpected token")}

\* a continuation of handleSubmit is queued as a microtask: it runs before
\* any further event is dispatched
ContinuationQueued == \E i \in DOMAIN calls : calls[i].phase = "settled"

\* genId of the toast library: an id no toast on display carries
FreshToastId == CHOOSE n \in 1..(Cardinality(loading) + 1) : n \notin loading

RemoveAt(seq, i) == SubSeq(seq, 1, i - 1) \o SubSeq(seq, i + 1, Len(seq))

-----------------------------------------------------------------------------
(* Initial state: the useState defaults *)

Init ==
    /\ selectedServices = <<>>
    /\ cardNumber = <<>>
    /\ cardName = <<>>
    /\ expiryDate = <<>>
    /\ cvv = <<>>
    /\ processing = FALSE
    /\ calls = <<>>
    /\ loading = {}
    /\ toast = NoToast
    /\ event = "none"

-----------------------------------------------------------------------------
(* User events *)

toggleService(serviceId) ==
    /\ ~ ContinuationQueued
    /\ selectedServices' = Toggled(selectedServices, serviceId)
    /\ event' = "toggle"
    /\ UNCHANGED <<fields, processing, calls, loading, toast>>

handleCardNumberChange(input) ==
    /\ ~ ContinuationQueued
    /\ cardNumber' = CardNumberAfter(cardNumber, input)
    /\ event' = "cardNumber"
    /\ UNCHANGED <<selectedServices, cardName, expiryDate, cvv,
                   processing, calls, loading, toast>>

\* onChange={(e) => setCardName(e.target.value)}
handleCardNameChange(input) ==
    /\ ~ ContinuationQueued
    /\ cardName' = input
    /\ event' = "cardName"
    /\ UNCHANGED <<selectedServices, cardNumber, expiryDate, cvv,
                   processing, calls, loading, toast>>

handleExpiryChange(input) ==
    /\ ~ ContinuationQueued
    /\ expiryDate' = ExpiryAfter(expiryDate, input)
    /\ event' = "expiry"
    /\ UNCHANGED <<selectedServices, cardNumber, cardName, cvv,
                   processing, calls, loading, toast>>

handleCvvChange(input) ==
    /\ ~ ContinuationQueued
    /\ cvv' = CvvAfter(cvv, input)
    /\ event' = "cvv"
    /\ UNCHANGED <<selectedServices, cardNumber, cardName, expiryDate,
                   processing, calls, loading, toast>>

-----------------------------------------------------------------------------
(* Submission *)

\* guard 1 of handleSubmit
NothingSelected == Len(selectedServices) = 0

\* faulty variant: guard 2 forgets the CVV
MissingCardDetailsButCvv ==
    \/ Len(cardNumber) = 0
    \/ Len(cardName) = 0
    \/ Len(expiryDate) = 0

\* guard 2 of handleSubmit
MissingCardDetails ==
    \/ Len(cardNumber) = 0
    \/ Len(cardName) = 0
    \/ Len(expiryDate) = 0
    \/ Len(cvv) = 0

\* faulty variant: the submit button is never disabled
SubmitButtonAlwaysEnabled == TRUE

\* the submit button is rendered disabled={processing}; a disabled submit
\* button submits nothing, by click or by Enter in a field
SubmitButtonEnabled == ~ processing

\* handleSubmit up to its first await: the guards, setProcessing(true), the
\* loading toast, the payload and the fetch call
handleSubmit ==
    /\ event' = "submit"
    /\ IF NothingSelected
       THEN /\ toast' = SelectServiceError
            /\ UNCHANGED <<selectedServices, fields, processing, calls, loading>>
       ELSE IF MissingCardDetails
       THEN /\ toast' = CardDetailsError
            /\ UNCHANGED <<selectedServices, fields, processing, calls, loading>>
       ELSE /\ Len(calls) < MaxCalls
            /\ Cardinality(loading) < MaxCalls
            /\ processing' = TRUE
            /\ loading' = loading \cup {FreshToastId}
            /\ calls' = Append(calls,
                   [ phase   |-> "fetch",
                     toastId |-> FreshToastId,
                     body    |-> JSONstringify(
                                     Payload(selectedServices, cardNumber,
                                             cvv, expiryDate)),
                     closure |-> selectedServices,
                     outcome |-> NoOutcome ])
            /\ UNCHANGED <<selectedServices, fields, toast>>

\* the form's submit event.  The inputs' `required` attributes are not relied
\* on to hold the event back: handleSubmit checks the fields itself, and an
\* event with an empty field is delivered to it.
SubmitEvent ==
    /\ ~ ContinuationQueued
    /\ SubmitButtonEnabled
    /\ handleSubmit

\* fetch resolves with a response; the invocation goes on to await
\* response.json()
FetchResolve(i) ==
    /\ ~ ContinuationQueued
    /\ calls[i].phase = "fetch"
    /\ calls' = [calls EXCEPT ![i].phase = "json"]
    /\ event' = "network"
    /\ UNCHANGED <<selectedServices, fields, processing, loading, toast>>

\* fetch rejects
FetchReject(i, outcome) ==
    /\ ~ ContinuationQueued
    /\ calls[i].phase = "fetch"
    /\ calls' = [calls EXCEPT ![i].phase = "settled", ![i].outcome = outcome]
    /\ event' = "network"
    /\ UNCHANGED <<selectedServices, fields, processing, loading, toast>>

\* response.json() resolves or rejects
JsonSettle(i, outcome) ==
    /\ ~ ContinuationQueued
    /\ calls[i].phase = "json"
    /\ calls' = [calls EXCEPT ![i].phase = "settled", ![i].outcome = outcome]
    /\ event' = "network"
    /\ UNCHANGED <<selectedServices, fields, processing, loading, toast>>

\* faulty variant: any status counts as approval, if (data.status)
ApprovedOnAnyStatus(outcome) ==
    outcome.kind = "data" /\ outcome.status \notin {Absent, ""}

Approved(outcome) == outcome.kind = "data" /\ outcome.status = "APPROVED"

\* the notification the rest of handleSubmit raises
OutcomeNotice(call) ==
    LET o == call.outcome
    IN  IF Approved(o) THEN ApprovedNotice(o.message, call.closure)
        ELSE IF o.kind = "data" THEN DeclinedNotice(o.status, o.message)
        ELSE ThrownNotice(TRUE, o.message)

\* faulty variant: the catch block does not dismiss the loading toast
LoadingAfterTryOnly(call) ==
    IF call.outcome.kind = "thrown" THEN loading ELSE loading \ {call.toastId}

\* faulty variant: setProcessing(false) ends the try block instead of sitting in finally
ProcessingAfterTryOnly(call) ==
    IF call.outcome.kind \in {"thrown", "null"} THEN processing ELSE FALSE

\* faulty variant: the reset forgets the selection
ResetFormButSelection ==
    /\ cardNumber' = <<>>
    /\ cardName' = <<>>
    /\ expiryDate' = <<>>
    /\ cvv' = <<>>
    /\ UNCHANGED selectedServices

\* toast.dismiss(toastId): after response.json() in the try block, and in
\* the catch block
LoadingAfter(call) == loading \ {call.toastId}

\* the finally block: setProcessing(false), whatever the outcome
ProcessingAfter(call) == FALSE

\* "Reset form on success"
ResetForm ==
    /\ selectedServices' = <<>>
    /\ cardNumber' = <<>>
    /\ cardName' = <<>>
    /\ expiryDate' = <<>>
    /\ cvv' = <<>>

\* the rest of handleSubmit, from the settled await to the end of finally
Resume(i) ==
    /\ calls[i].phase = "settled"
    /\ loading' = LoadingAfter(calls[i])
    /\ toast' = OutcomeNotice(calls[i])
    /\ IF Approved(calls[i].outcome)
       THEN ResetForm
       ELSE UNCHANGED <<selectedServices, fields>>
    /\ processing' = ProcessingAfter(calls[i])
    /\ calls' = RemoveAt(calls, i)
    /\ event' = "resume"

-----------------------------------------------------------------------------
(* The form under whole-value edits and gateway responses *)

ToggleIds == {"2", "3"}
CardInputs == {<<>>, <<"4", "1", "1", "1", "1", "1", "1", "1",
                       "1", "1", "1", "1", "1", "1", "1", "1">>}
NameInputs == {<<>>, <<"J">>}
ExpiryInputs == {<<>>, <<"1">>, <<"1", "2", "2", "5">>}
CvvInputs == {<<>>, <<"1", "2", "3">>}

Next ==
    \/ \E id \in ToggleIds : toggleService(id)
    \/ \E input \in CardInputs : handleCardNumberChange(input)
    \/ \E input \in NameInputs : handleCardNameChange(input)
    \/ \E input \in ExpiryInputs : handleExpiryChange(input)
    \/ \E input \in CvvInputs : handleCvvChange(input)
    \/ SubmitEvent
    \/ \E i \in DOMAIN calls : FetchResolve(i)
    \/ \E i \in DOMAIN calls : \E o \in FetchErrors : FetchReject(i, o)
    \/ \E i \in DOMAIN calls : \E o \in JsonOutcomes : JsonSettle(i, o)
    \/ \E i \in DOMAIN calls : Resume(i)

Spec == Init /\ [][Next]_vars

\* the event loop runs a queued continuation
FairSpec == Spec /\ WF_vars(\E i \in DOMAIN calls : Resume(i))

-----------------------------------------------------------------------------
(* The formatted fields under single keystrokes *)

CardKeys == {"4", " ", "a"}
ExpiryKeys == {"1", "2", "/", "a"}
CvvKeys == {"1", "2", "a"}

\* e.target.value after one key: a character typed at any position of the
\* field, or one character deleted
Keystrokes(cur, keys) ==
    {SubSeq(cur, 1, p) \o <<c>> \o SubSeq(cur, p + 1, Len(cur)) :
        p \in 0..Len(cur), c \in keys}
    \cup {RemoveAt(cur, p) : p \in 1..Len(cur)}

NextFmt ==
    \/ \E input \in Keystrokes(cardNumber, CardKeys) : handleCardNumberChange(input)
    \/ \E input \in Keystrokes(expiryDate, ExpiryKeys) : handleExpiryChange(input)
    \/ \E input \in Keystrokes(cvv, CvvKeys) : handleCvvChange(input)

SpecFmt == Init /\ [][NextFmt]_vars

-----------------------------------------------------------------------------
(* The whole catalog: any selection, submitted with the card details typed *)

InitSel ==
    /\ selectedServices = <<>>
    /\ cardNumber \in {CardNumberAfter(<<>>, input) : input \in CardInputs \ {<<>>}}
    /\ cardName \in NameInputs \ {<<>>}
    /\ expiryDate \in {ExpiryAfter(<<>>, input) : input \in ExpiryInputs \ {<<>>}}
    /\ cvv \in {CvvAfter(<<>>, input) : input \in CvvInputs \ {<<>>}}
    /\ processing = FALSE
    /\ calls = <<>>
    /\ loading = {}
    /\ toast = NoToast
    /\ event = "none"

NextSel ==
    \/ \E id \in ServiceIds : calls = <<>> /\ toggleService(id)
    \/ SubmitEvent
    \/ \E i \in DOMAIN calls : FetchResolve(i)
    \/ \E i \in DOMAIN calls : \E o \in FetchErrors : FetchReject(i, o)
    \/ \E i \in DOMAIN calls : \E o \in JsonOutcomes : JsonSettle(i, o)
    \/ \E i \in DOMAIN calls : Resume(i)

SpecSel == InitSel /\ [][NextSel]_vars

-----------------------------------------------------------------------------
(* Properties *)

Range(seq) == {seq[i] : i \in DOMAIN seq}

\* the invocation of handleSubmit a step has just suspended at fetch
Sent == calls'[Len(calls')]

\* a submit event got past both guards and sent a request
SubmitSends == event' = "submit" /\ Len(calls') = Len(calls) + 1

AnyFieldEmpty ==
    cardNumber = <<>> \/ cardName = <<>> \/ expiryDate = <<>> \/ cvv = <<>>

\* C1: a submit event that fires while nothing is selected, or while one of
\* the four payment fields is empty, sends no request, raises a validation
\* error, and leaves the processing flag false and the selection and the
\* four fields as they were.
C1_ValidationSendsNothing ==
    [][ (event' = "submit" /\ (selectedServices = <<>> \/ AnyFieldEmpty))
            => /\ calls' = calls
               /\ loading' = loading
               /\ toast'.kind = "error"
               /\ toast' = IF selectedServices = <<>>
                           THEN SelectServiceError ELSE CardDetailsError
               /\ processing' = FALSE
               /\ selectedServices' = selectedServices
               /\ fields' = fields ]_vars

\* a submit event was refused for an empty CVV alone
C1_Witness ==
    /\ event = "submit"
    /\ toast = CardDetailsError
    /\ selectedServices # <<>>
    /\ cardNumber # <<>> /\ cardName # <<>> /\ expiryDate # <<>>
    /\ cvv = <<>>
    /\ calls = <<>>
    /\ ~ processing

\* C2: at no time is more than one request sent and not yet handled.
C2_AtMostOneOutstanding == Len(calls) <= 1

\* a request is outstanding while the user goes on editing the form
C2_Witness ==
    /\ Len(calls) = 1
    /\ calls[1].phase = "fetch"
    /\ processing
    /\ event = "cvv"
    /\ ~ AnyFieldEmpty
    /\ selectedServices # <<>>

\* the outcome is a failure: a status other than APPROVED, a body that does
\* not parse or has no properties, or a thrown exception
Failure(outcome) ==
    \/ outcome.kind \in {"thrown", "null"}
    \/ outcome.kind = "data" /\ outcome.status # "APPROVED"

\* the notification carries the text
Carries(notice, text) ==
    text = "" \/ \E k \in DOMAIN notice.parts : notice.parts[k] = text

\* C3: handling a failed submission leaves the selection and the four
\* fields as they were just before, and raises an error notification that
\* carries the gateway's message when the response has one.
C3_FailureKeepsForm ==
    [][ \A i \in DOMAIN calls :
          (calls[i].phase = "settled" /\ Failure(calls[i].outcome)
              /\ event' = "resume")
            => /\ selectedServices' = selectedServices
               /\ fields' = fields
               /\ toast'.kind = "error"
               /\ (calls[i].outcome.kind = "data"
                      /\ calls[i].outcome.message # Absent)
                    => Carries(toast', calls[i].outcome.message) ]_vars

\* a decline has been handled: the form is intact and the reason is shown
C3_Witness ==
    /\ event = "resume"
    /\ toast = DeclinedNotice("DECLINED", "Insufficient funds")
    /\ selectedServices # <<>>
    /\ ~ AnyFieldEmpty
    /\ calls = <<>>

\* C4: handling an APPROVED response raises a success notification and
\* leaves the selection and the four fields empty and the processing flag
\* false, whatever was toggled or typed while the request was in flight.
C4_ApprovedClearsForm ==
    [][ \A i \in DOMAIN calls :
          (calls[i].phase = "settled" /\ calls[i].outcome.kind = "data"
              /\ calls[i].outcome.status = "APPROVED" /\ event' = "resume")
            => /\ toast'.kind = "success"
               /\ selectedServices' = <<>>
               /\ cardNumber' = <<>> /\ cardName' = <<>>
               /\ expiryDate' = <<>> /\ cvv' = <<>>
               /\ processing' = FALSE ]_vars

\* an approval has been handled
C4_Witness ==
    /\ event = "resume"
    /\ toast.kind = "success"
    /\ selectedServices = <<>>
    /\ cardNumber = <<>> /\ cardName = <<>> /\ expiryDate = <<>> /\ cvv = <<>>
    /\ ~ processing

\* C5: whenever the processing flag is true, a request sent by handleSubmit
\* is outstanding, its outcome not yet handled.
C5_ProcessingOnlyWhileOutstanding == processing => Len(calls) >= 1

\* the flag is up while the response body is awaited
C5_Witness ==
    /\ processing
    /\ Len(calls) = 1
    /\ calls[1].phase = "json"

\* C6: every submission whose network call has completed, with whatever
\* outcome, eventually leaves the controller idle: processing flag false
\* and no loading notification on display.
C6_CompletedCallReturnsToIdle ==
    (\E i \in DOMAIN calls : calls[i].phase = "settled")
        ~> (processing = FALSE /\ loading = {} /\ calls = <<>>)

\* a thrown network error has been handled and the controller is idle
C6_Witness ==
    /\ event = "resume"
    /\ toast = ThrownNotice(TRUE, "Failed to fetch")
    /\ processing = FALSE
    /\ loading = {}
    /\ calls = <<>>

\* C7: every request sent carries expiryMonth and expiryYear, both strings,
\* equal to the two substrings of the expiry field split at the "/".
C7_ExpiryPartsPresent ==
    [][ SubmitSends
          => /\ {"expiryMonth", "expiryYear"} \subseteq DOMAIN Sent.body
             /\ Sent.body.expiryMonth.t = "string"
             /\ Sent.body.expiryYear.t = "string"
             /\ Sent.body.expiryMonth.v \o <<"/">> \o Sent.body.expiryYear.v
                    = expiryDate ]_vars

\* C8: the mccCode sent is the routing code of the first catalog entry, in
\* catalog order, whose id is in the selection; it is a function of the set
\* of selected ids alone.
C8_MccOfFirstCatalogEntry ==
    [][ SubmitSends
          => \E i \in DOMAIN services :
                /\ services[i].id \in Range(selectedServices)
                /\ \A j \in 1..(i - 1) : services[j].id \notin Range(selectedServices)
                /\ Sent.body.mccCode = StrV(services[i].mccCode) ]_vars

\* a request is out for a selection toggled against catalog order, whose
\* first toggled service has another routing code than the one sent
C8_Witness ==
    /\ Len(calls) = 1
    /\ Len(calls[1].closure) >= 2
    /\ calls[1].closure[1] = "5"
    /\ "2" \in Range(calls[1].closure)
    /\ calls[1].body.mccCode.v = "7531"

\* C9: every value a formatted field reaches by keystrokes is a fixed point
\* of its change handler, and the handlers map the empty string to the
\* empty string.
C9_FormattersIdempotent ==
    /\ CardNumberAfter(cardNumber, cardNumber) = cardNumber
    /\ formatCardNumber(cardNumber) = cardNumber
    /\ ExpiryAfter(expiryDate, expiryDate) = expiryDate
    /\ CvvAfter(cvv, cvv) = cvv
    /\ CardNumberAfter(cardNumber, <<>>) = <<>>
    /\ formatCardNumber(<<>>) = <<>>
    /\ ExpiryAfter(expiryDate, <<>>) = <<>>
    /\ CvvAfter(cvv, <<>>) = <<>>

\* all three fields are full, separators included
C9_Witness ==
    /\ Len(cardNumber) = 19
    /\ Len(expiryDate) = 5
    /\ Len(cvv) = 3
    /\ event = "expiry"

\* the prices of the catalog entries at the indices S, each once
RECURSIVE SumOfPrices(_)
SumOfPrices(S) ==
    IF S = {} THEN 0
    ELSE LET i == CHOOSE k \in S : TRUE
         IN  services[i].price + SumOfPrices(S \ {i})

IndicesOf(sel) == {i \in DOMAIN services : services[i].id \in Range(sel)}

====
